---- MODULE Spec2Model ----
(***************************************************************************)
(* Model of deeppavlov/models/kg_ranker/kg_manager.py:                     *)
(*   KudaGoClusterPolicyManager  (_onehot, _split_by_tags,                 *)
(*                                _num_events_with_tags, _best_divide,     *)
(*                                __call__  = "select")                    *)
(*   KudaGoDialogueManager       (__call__  = "decide")                    *)
(*                                                                         *)
(* Tags, cluster ids and questions are strings.  An event is a record      *)
(* with a field tags (the set of its tags: the code only ever looks at     *)
(* set(e['tags']) and at the truth value of e['tags']).  A matrix is a     *)
(* sequence of rows, a row a sequence of 0/1.  A split rate is the double  *)
(* nearest to num/den, kept as the pair [num, den]; 0/0 is numpy's nan.    *)
(***************************************************************************)
EXTENDS Integers, Sequences, FiniteSets, TLC

VARIABLES
    questions_d,      \* self.questions_d : cluster id -> question
    clusters_oh,      \* self.clusters_oh : dict in insertion order, a sequence of [cl_id, oh]
    tags_l,           \* self.tags_l      : the tag vocabulary, a sequence
    min_rate,         \* self.min_rate
    max_rate,         \* self.max_rate
    min_num_events,   \* KudaGoDialogueManager.min_num_events
    events,           \* the batch of event lists a call is made with
    perm,             \* a permutation of the indices of events[1] (the caller's reordering)
    d_ret,            \* what decide returned on events, NoCall before the first call
    s_ret,            \* what select returned on events
    p_ret,            \* what select returned on the permuted events
    oh_arg,           \* arguments of a direct _onehot call
    oh_ret            \* its result

config == <<questions_d, clusters_oh, tags_l, min_rate, max_rate, min_num_events>>
vars == <<questions_d, clusters_oh, tags_l, min_rate, max_rate, min_num_events,
          events, perm, d_ret, s_ret, p_ret, oh_arg, oh_ret>>

-----------------------------------------------------------------------------
(* Bounds of the model *)

\* most events in one event list handed to select
MaxEvents == 4
\* most events in a list whose every reordering is tried
MaxPermEvents == 3
\* most event lists in a batch handed to decide
MaxBatch == 2
\* most events in a whole batch handed to decide
MaxBatchEvents == 3
\* most tag lists in a direct _onehot call
MaxOnehotRows == 2
\* most vocabulary entries in a direct _onehot call
MaxVocab == 2

-----------------------------------------------------------------------------
(* Values *)

None == "None"
NoCall == [called |-> FALSE]
ValueError == [called |-> TRUE, fault |-> TRUE]

Range(s) == {s[i] : i \in 1..Len(s)}

RECURSIVE SeqsUpTo(_, _)
SeqsUpTo(S, n) ==
    IF n = 0 THEN {<<>>}
    ELSE LET shorter == SeqsUpTo(S, n - 1)
         IN  shorter \cup {Append(s, x) : s \in {t \in shorter : Len(t) = n - 1}, x \in S}

Perms(n) == {p \in [1..n -> 1..n] : \A i, j \in 1..n : p[i] = p[j] => i = j}

Permuted(l, p) == [i \in 1..Len(l) |-> l[p[i]]]

NoDuplicates(s) == \A i, j \in 1..Len(s) : s[i] = s[j] => i = j

\* a numpy array or a list given by its entries, as a tuple
Array(f) == <<>> \o f

\* the double nearest to num/den
Rate(num, den) == [num |-> num, den |-> den]
IsNaN(r) == r.den = 0

-----------------------------------------------------------------------------
(* IEEE-754 binary64 arithmetic of _best_divide, line 120-121.             *)
(* num_split_events / num_events is the correctly rounded quotient of two  *)
(* small integers and np.fabs(0.5 - rate) one more rounded operation.      *)
(* 53-bit significands do not fit TLC's integers, so the roundings are     *)
(* computed from residues modulo the denominator.                          *)

\* bits of a binary64 significand
SignificandBits == 53

\* 2^e mod m for e < 80 and m < 1000, in steps of 2^20 that fit TLC's integers
Pow2Mod(e, m) == (((((2^20) % m)^(e \div 20)) % m) * ((2^(e % 20)) % m)) % m

\* the e >= 1 with 2^-e <= k/n < 2^-(e-1), for 0 < k < n
BinadeOf(k, n) == CHOOSE e \in 1..n : k * 2^e >= n /\ k * 2^(e - 1) < n

\* n * (rne(k * 2^p / n) - k * 2^p / n): the rounding error, in units of 1/n,
\* of rounding k * 2^p / n to the nearest integer, ties to even
RoundOffset(k, n, p) ==
    LET r    == (k * Pow2Mod(p, n)) % n
        odd  == ((k * Pow2Mod(p, 2 * n)) % (2 * n)) \div n
    IN  IF 2 * r < n THEN 0 - r
        ELSE IF 2 * r > n THEN n - r
        ELSE IF odd = 0 THEN 0 - r ELSE n - r

\* rne((base + num/den)) - base for an integer base of the given parity
RoundNearestEven(num, den, baseOdd) ==
    LET fl  == num \div den
        rem == num - fl * den
    IN  IF 2 * rem < den THEN fl
        ELSE IF 2 * rem > den THEN fl + 1
        ELSE IF (fl + baseOdd) % 2 = 0 THEN fl ELSE fl + 1

\* With T = |n - 2k| * 2^53 / n (the exact |0.5 - k/n|, in units of 2^-54):
\*   n * (np.fabs(0.5 - k/n) * 2^54 - floor(T))   as the doubles compute it.
\* k/n >= 1/2: the quotient has ulp 2^-53 and the subtraction is exact.
\* k/n <  1/2: the quotient lies in the binade 2^-e, the difference is
\*             rounded to a multiple of 2^-54 (exact when e = 2).
DistOffset(k, n) ==
    LET p     == SignificandBits
        a     == IF 2 * k >= n THEN 2 * k - n ELSE n - 2 * k
        f     == (a * Pow2Mod(p, n)) % n
        odd   == ((a * Pow2Mod(p, 2 * n)) % (2 * n)) \div n
    IN  IF k = 0 THEN 0
        ELSE IF 2 * k >= n THEN f + 2 * RoundOffset(k, n, p)
        ELSE LET e  == BinadeOf(k, n)
                 S  == 2^(e - 2)
                 ax == RoundOffset(k, n, p - 1 + e)
             IN  n * RoundNearestEven(f * S - ax, n * S, odd)

\* np.fabs(0.5 - k1/n) < np.fabs(0.5 - k2/n) in binary64, 0 <= k1, k2 <= n, n > 0.
\* Exact distances that differ do so by at least 1/(2n), far above the rounding
\* errors (< 2^-52); equal exact distances are told apart by the roundings.
DistLess(k1, k2, n) ==
    LET a1 == IF 2 * k1 >= n THEN 2 * k1 - n ELSE n - 2 * k1
        a2 == IF 2 * k2 >= n THEN 2 * k2 - n ELSE n - 2 * k2
    IN  \/ a1 < a2
        \/ a1 = a2 /\ k1 # k2 /\ DistOffset(k1, n) < DistOffset(k2, n)

\* r < t for a rate r and a threshold t, both doubles nearest to a ratio of small
\* integers: rounding is monotone and two such ratios that differ are more than
\* an ulp apart, so the doubles compare as the ratios do.  Any comparison with
\* nan is False.
RateLess(r, t) == ~IsNaN(r) /\ ~IsNaN(t) /\ r.num * t.den < t.num * r.den

-----------------------------------------------------------------------------
(* KudaGoClusterPolicyManager *)

\* list.index: the first position of t in all_tags
Index(all_tags, t) == CHOOSE j \in 1..Len(all_tags) :
                          all_tags[j] = t /\ \A i \in 1..(j - 1) : all_tags[i] # t

\* _onehot with line 85 writing the whole column, onehoted[:, all_tags.index(t)] = 1
OnehotWholeColumn(tags, all_tags) ==
    Array([i \in 1..Len(tags) |->
        Array([j \in 1..Len(all_tags) |->
            IF \E k \in 1..Len(tags) :
                   \E t \in tags[k] \cap Range(all_tags) : Index(all_tags, t) = j
            THEN 1 ELSE 0])])

\* _onehot(tags, all_tags): tags a sequence of tag sets, all_tags a sequence of tags
Onehot(tags, all_tags) ==
    Array([i \in 1..Len(tags) |->
        LET s_filtered_tags == tags[i] \cap Range(all_tags)
        IN  Array([j \in 1..Len(all_tags) |->
                IF \E t \in s_filtered_tags : Index(all_tags, t) = j THEN 1 ELSE 0])])

\* _split_by_tags: np.multiply of a (num_samples, num_tags) matrix by the
\* (1, num_tags) matrix of a cluster, broadcast over the rows
SplitByTags(event_tags_oh, tags_oh) ==
    Array([i \in 1..Len(event_tags_oh) |->
        Array([j \in 1..Len(event_tags_oh[i]) |-> event_tags_oh[i][j] * tags_oh[1][j]])])

\* np.sum(m, axis=1) for one row: the entries are 0 or 1, so their sum is the
\* number of ones
RowSum(row) == Cardinality({j \in 1..Len(row) : row[j] = 1})

\* _num_events_with_tags summing the row sums instead of counting the positive ones
NumTagsOfEvents(event_tags_oh) ==
    LET RECURSIVE Total(_)
        Total(i) == IF i = 0 THEN 0 ELSE RowSum(event_tags_oh[i]) + Total(i - 1)
    IN  Total(Len(event_tags_oh))

\* _num_events_with_tags: np.sum(np.sum(m, axis=1) > 0)
NumEventsWithTags(event_tags_oh) ==
    Cardinality({i \in 1..Len(event_tags_oh) : RowSum(event_tags_oh[i]) > 0})

\* split_rates of _best_divide: one rate per cluster, in the order of
\* clusters_oh.items()
SplitRates(event_tags_oh, num_events) ==
    Array([c \in 1..Len(clusters_oh) |->
        LET split_event_tags_oh == SplitByTags(event_tags_oh, clusters_oh[c].oh)
            num_split_events    == NumEventsWithTags(split_event_tags_oh)
        IN  Rate(num_split_events, num_events)])

\* np.argmin(np.fabs(0.5 - np.array(split_rates))): the first index of the least
\* distance; a nan compares as the least, so the first nan wins
ArgminDist(split_rates) ==
    IF \E c \in 1..Len(split_rates) : IsNaN(split_rates[c])
    THEN CHOOSE c \in 1..Len(split_rates) :
             IsNaN(split_rates[c]) /\ \A b \in 1..(c - 1) : ~IsNaN(split_rates[b])
    ELSE CHOOSE c \in 1..Len(split_rates) :
             /\ \A b \in 1..(c - 1) :
                    DistLess(split_rates[c].num, split_rates[b].num, split_rates[c].den)
             /\ \A b \in (c + 1)..Len(split_rates) :
                    ~DistLess(split_rates[b].num, split_rates[c].num, split_rates[c].den)

\* lines 121-122 of _best_divide: np.argmin of an empty sequence raises ValueError
BestOf(split_rates) ==
    IF split_rates = <<>> THEN ValueError
    ELSE LET best_idx == ArgminDist(split_rates)
         IN  [called |-> TRUE, fault |-> FALSE,
              cl_id |-> clusters_oh[best_idx].cl_id, rate |-> split_rates[best_idx]]

\* _best_divide
BestDivide(event_tags_oh) ==
    BestOf(SplitRates(event_tags_oh, NumEventsWithTags(event_tags_oh)))

\* line 92 stopping at the first event without tags instead of skipping it
RECURSIVE WithTagsUntilUntagged(_)
WithTagsUntilUntagged(events_l) ==
    IF events_l = <<>> THEN <<>>
    ELSE IF Head(events_l).tags # {}
         THEN <<Head(events_l).tags>> \o WithTagsUntilUntagged(Tail(events_l))
         ELSE <<>>

\* [e['tags'] for e in events_l if e['tags']], line 92
WithTags(events_l) ==
    LET tagged == SelectSeq(events_l, LAMBDA e : e.tags # {})
    IN  Array([i \in 1..Len(tagged) |-> tagged[i].tags])

\* lines 98-103 rejecting the boundary rates too (<= and >=)
AcceptInsideOnly(bst) ==
    IF bst.fault THEN [fault |-> TRUE, question |-> "", cluster_id |-> None]
    ELSE IF ~RateLess(min_rate, bst.rate) \/ ~RateLess(bst.rate, max_rate)
         THEN [fault |-> FALSE, question |-> "", cluster_id |-> None]
         ELSE [fault |-> FALSE, question |-> questions_d[bst.cl_id],
               cluster_id |-> bst.cl_id]

\* lines 98-103: the answer to what _best_divide returned (or raised)
Accept(bst) ==
    IF bst.fault THEN [fault |-> TRUE, question |-> "", cluster_id |-> None]
    ELSE IF RateLess(bst.rate, min_rate) \/ RateLess(max_rate, bst.rate)
         THEN [fault |-> FALSE, question |-> "", cluster_id |-> None]
         ELSE [fault |-> FALSE, question |-> questions_d[bst.cl_id],
               cluster_id |-> bst.cl_id]

\* one turn of the loop of KudaGoClusterPolicyManager.__call__
SelectOne(events_l) == Accept(BestDivide(Onehot(WithTags(events_l), tags_l)))

\* the appends of a turn; an exception in a turn ends the call
SelectAppend(before, one) ==
    IF before.fault \/ one.fault
    THEN [called |-> TRUE, fault |-> TRUE, questions |-> <<>>, cluster_ids |-> <<>>]
    ELSE [called |-> TRUE, fault |-> FALSE,
          questions   |-> Append(before.questions, one.question),
          cluster_ids |-> Append(before.cluster_ids, one.cluster_id)]

\* the loop of KudaGoClusterPolicyManager.__call__ after n event lists
RECURSIVE SelectLoop(_, _)
SelectLoop(batch, n) ==
    IF n = 0 THEN [called |-> TRUE, fault |-> FALSE, questions |-> <<>>, cluster_ids |-> <<>>]
    ELSE SelectAppend(SelectLoop(batch, n - 1), SelectOne(batch[n]))

\* KudaGoClusterPolicyManager.__call__(events)
Select(batch) == SelectLoop(batch, Len(batch))

-----------------------------------------------------------------------------
(* KudaGoDialogueManager *)

\* a message is the event list handed in or a question handed back
EventsMessage(events_l) == [is_events |-> TRUE, events |-> events_l, question |-> ""]
QuestionMessage(q)      == [is_events |-> FALSE, events |-> <<>>, question |-> q]

\* lines 44-52 with line 47 appending the policy's message instead of the events
ReconcileKeepingPolicyMessage(events_l, r) ==
    IF r.fault
    THEN [fault |-> TRUE, policy_calls |-> <<<<events_l>>>>,
          message |-> EventsMessage(events_l), cluster_id |-> None]
    ELSE [fault |-> FALSE, policy_calls |-> <<<<events_l>>>>,
          message |-> QuestionMessage(r.questions[1]), cluster_id |-> r.cluster_ids[1]]

\* lines 44-52: what a turn appends given what cluster_policy([events]) returned
\* (or raised); policy_calls lists the arguments of the calls made to it
Reconcile(events_l, r) ==
    IF r.fault
    THEN [fault |-> TRUE, policy_calls |-> <<<<events_l>>>>,
          message |-> EventsMessage(events_l), cluster_id |-> None]
    ELSE IF r.cluster_ids[1] = None
         THEN [fault |-> FALSE, policy_calls |-> <<<<events_l>>>>,
               message |-> EventsMessage(events_l), cluster_id |-> None]
         ELSE [fault |-> FALSE, policy_calls |-> <<<<events_l>>>>,
               message |-> QuestionMessage(r.questions[1]), cluster_id |-> r.cluster_ids[1]]

\* the turn with line 37 off by one: a list one event short still goes to the policy
DecideOneOffByOne(events_l) ==
    IF Len(events_l) < min_num_events - 1
    THEN [fault |-> FALSE, policy_calls |-> <<>>,
          message |-> EventsMessage(events_l), cluster_id |-> None]
    ELSE Reconcile(events_l, Select(<<events_l>>))

\* one turn of the loop of KudaGoDialogueManager.__call__
DecideOne(events_l) ==
    IF Len(events_l) < min_num_events
    THEN [fault |-> FALSE, policy_calls |-> <<>>,
          message |-> EventsMessage(events_l), cluster_id |-> None]
    ELSE Reconcile(events_l, Select(<<events_l>>))

\* the appends of a turn; an exception in a turn ends the call
DecideAppend(before, one) ==
    IF before.fault \/ one.fault
    THEN [called |-> TRUE, fault |-> TRUE, messages |-> <<>>,
          cluster_ids |-> <<>>, policy_calls |-> <<>>]
    ELSE [called |-> TRUE, fault |-> FALSE,
          messages     |-> Append(before.messages, one.message),
          cluster_ids  |-> Append(before.cluster_ids, one.cluster_id),
          policy_calls |-> Append(before.policy_calls, one.policy_calls)]

\* the loop of KudaGoDialogueManager.__call__ after n triples of the zip; slots
\* and utter_history are bound by the loop and never read
RECURSIVE DecideLoop(_, _)
DecideLoop(batch, n) ==
    IF n = 0 THEN [called |-> TRUE, fault |-> FALSE, messages |-> <<>>,
                   cluster_ids |-> <<>>, policy_calls |-> <<>>]
    ELSE DecideAppend(DecideLoop(batch, n - 1), DecideOne(batch[n]))

\* the loop with lines 40-41 missing: a short list appends nothing
RECURSIVE DecideLoopSkippingShort(_, _)
DecideLoopSkippingShort(batch, n) ==
    IF n = 0 THEN [called |-> TRUE, fault |-> FALSE, messages |-> <<>>,
                   cluster_ids |-> <<>>, policy_calls |-> <<>>]
    ELSE IF Len(batch[n]) < min_num_events THEN DecideLoopSkippingShort(batch, n - 1)
    ELSE DecideAppend(DecideLoopSkippingShort(batch, n - 1), DecideOne(batch[n]))

DecideSkippingShort(batch) == DecideLoopSkippingShort(batch, Len(batch))

\* KudaGoDialogueManager.__call__(events, slots, utter_history)
Decide(batch) == DecideLoop(batch, Len(batch))

-----------------------------------------------------------------------------
(* Construction *)

ClusterSlot(id, tags, questions) ==
    [id |-> id, type |-> "ClusterSlot", tags |-> tags, questions |-> questions]
OtherSlot(id) ==
    [id |-> id, type |-> "StringSlot", tags |-> {}, questions |-> ""]

\* clusters of __init__: the slots of data['slots'] of type ClusterSlot, in order
RECURSIVE Clusters(_)
Clusters(slots) ==
    IF slots = <<>> THEN <<>>
    ELSE IF Head(slots).type = "ClusterSlot"
         THEN <<Head(slots)>> \o Clusters(Tail(slots))
         ELSE Clusters(Tail(slots))

ClusterTags(slots) == UNION {Clusters(slots)[c].tags : c \in 1..Len(Clusters(slots))}

\* list(set(...)) of line 67 enumerates the tags in an order the build picks
SetOrders(S) == {s \in [1..Cardinality(S) -> S] : Range(s) = S}

NoTags == [given |-> FALSE, tags |-> <<>>]
GivenTags(t) == [given |-> TRUE, tags |-> t]

\* KudaGoClusterPolicyManager.__init__(data, tags, min_rate, max_rate), with
\* set_order the order list(set(...)) comes out in when tags is None
PolicyInit(slots, tags, rates, set_order) ==
    LET clusters == Clusters(slots)
        vocab    == IF tags.given THEN tags.tags ELSE set_order
    IN  /\ questions_d = [id \in {clusters[c].id : c \in 1..Len(clusters)} |->
                            (CHOOSE cl \in Range(clusters) : cl.id = id).questions]
        /\ min_rate = rates[1]
        /\ max_rate = rates[2]
        /\ tags_l = vocab
        /\ clusters_oh = [c \in 1..Len(clusters) |->
                            [cl_id |-> clusters[c].id,
                             oh    |-> Onehot(<<clusters[c].tags>>, vocab)]]

\* the defaults of __init__, min_rate=0.01 and max_rate=0.99
DefaultRates == <<Rate(1, 100), Rate(99, 100)>>
ThirdRates   == <<Rate(1, 3), Rate(2, 3)>>

DataXY   == <<ClusterSlot("X", {"A"}, "qX"), OtherSlot("S"), ClusterSlot("Y", {"B"}, "qY")>>
DataXYC  == <<ClusterSlot("X", {"A"}, "qX"), ClusterSlot("Y", {"B", "C"}, "qY")>>
DataYCX  == <<ClusterSlot("Y", {"B", "C"}, "qY"), ClusterSlot("X", {"A"}, "qX")>>
DataX    == <<ClusterSlot("X", {"A"}, "qX")>>
DataNone == <<OtherSlot("S")>>

\* constructor arguments: <<data['slots'], tags>>
PolicyArgs ==
    { <<DataXY, NoTags>>, <<DataXYC, NoTags>>, <<DataYCX, NoTags>>,
      <<DataX, GivenTags(<<"A", "B", "C">>)>>, <<DataNone, NoTags>> }
FewPolicyArgs ==
    { <<DataXY, NoTags>>, <<DataYCX, GivenTags(<<"B", "A", "C">>)>>, <<DataNone, NoTags>> }

Event(tags) == [tags |-> tags]
Events     == {Event({}), Event({"A"}), Event({"B"}), Event({"C"}), Event({"A", "B"})}
FewEvents  == {Event({}), Event({"A"}), Event({"B"})}
PermEvents == {Event({}), Event({"A"}), Event({"B"}), Event({"A", "C"})}

\* the batches of at most n event lists holding at most t events in all
RECURSIVE BatchesUpTo(_, _)
BatchesUpTo(n, t) ==
    IF n = 0 THEN {<<>>}
    ELSE {<<>>} \cup UNION { {<<l>> \o b : b \in BatchesUpTo(n - 1, t - Len(l))} :
                               l \in SeqsUpTo(FewEvents, t) }

Batches == BatchesUpTo(MaxBatch, MaxBatchEvents)

\* tags of a direct _onehot call; "Z" is in no vocabulary
OnehotTags  == {"A", "B", "Z"}
VocabTags   == {"A", "B", "C"}

NoCalls == /\ d_ret = NoCall /\ s_ret = NoCall /\ p_ret = NoCall /\ oh_ret = NoCall

-----------------------------------------------------------------------------
(* Calls.  No method of either class assigns to an attribute of self. *)

\* decide is called on the batch
DecideCall ==
    /\ d_ret' = Decide(events)
    /\ UNCHANGED <<config, events, perm, s_ret, p_ret, oh_arg, oh_ret>>

\* select that drops from the catalog every cluster it has just asked about
SelectCallDroppingAsked ==
    /\ s_ret' = Select(events)
    /\ clusters_oh' = SelectSeq(clusters_oh,
                                LAMBDA c : c.cl_id \notin Range(Select(events).cluster_ids))
    /\ UNCHANGED <<questions_d, tags_l, min_rate, max_rate, min_num_events,
                   events, perm, d_ret, p_ret, oh_arg, oh_ret>>

\* select is called on the batch
SelectCall ==
    /\ s_ret' = Select(events)
    /\ UNCHANGED <<config, events, perm, d_ret, p_ret, oh_arg, oh_ret>>

\* select is called on the event list reordered by the caller
SelectPermutedCall ==
    /\ p_ret' = Select(<<Permuted(events[1], perm)>>)
    /\ UNCHANGED <<config, events, perm, d_ret, s_ret, oh_arg, oh_ret>>

\* _onehot is called
OnehotCall ==
    /\ oh_ret' = [called |-> TRUE, m |-> Onehot(oh_arg.tags, oh_arg.all_tags)]
    /\ UNCHANGED <<config, events, perm, d_ret, s_ret, p_ret, oh_arg>>

-----------------------------------------------------------------------------
(* Specifications *)

\* decide and select, called any number of times on a batch
Init ==
    /\ \E a \in FewPolicyArgs : \E o \in SetOrders(ClusterTags(a[1])) :
           PolicyInit(a[1], a[2], DefaultRates, o)
    /\ min_num_events \in {1, 3}
    /\ events \in Batches
    /\ perm = <<>>
    /\ oh_arg = NoCall
    /\ NoCalls

Next == DecideCall \/ SelectCall

Spec == Init /\ [][Next]_vars

\* select on one event list
InitSelect ==
    /\ \E a \in PolicyArgs, r \in {DefaultRates, ThirdRates} :
           \E o \in SetOrders(ClusterTags(a[1])) : PolicyInit(a[1], a[2], r, o)
    /\ min_num_events = 1
    /\ events \in {<<l>> : l \in SeqsUpTo(Events, MaxEvents)}
    /\ perm = <<>>
    /\ oh_arg = NoCall
    /\ NoCalls

NextSelect == SelectCall

SpecSelect == InitSelect /\ [][NextSelect]_vars

\* select on one event list and on a reordering of it
InitPerm ==
    /\ \E a \in FewPolicyArgs, r \in {DefaultRates, ThirdRates} :
           \E o \in SetOrders(ClusterTags(a[1])) : PolicyInit(a[1], a[2], r, o)
    /\ min_num_events = 1
    /\ \E l \in SeqsUpTo(PermEvents, MaxPermEvents) :
           /\ events = <<l>>
           /\ perm \in Perms(Len(l))
    /\ oh_arg = NoCall
    /\ NoCalls

NextPerm == SelectCall \/ SelectPermutedCall

SpecPerm == InitPerm /\ [][NextPerm]_vars

\* _onehot on its own
InitOnehot ==
    /\ PolicyInit(DataXY, NoTags, DefaultRates, <<"A", "B">>)
    /\ min_num_events = 1
    /\ events = <<>>
    /\ perm = <<>>
    /\ \E t \in SeqsUpTo(SUBSET OnehotTags, MaxOnehotRows), v \in SeqsUpTo(VocabTags, MaxVocab) :
           oh_arg = [called |-> TRUE, tags |-> t, all_tags |-> v]
    /\ NoCalls

NextOnehot == OnehotCall

SpecOnehot == InitOnehot /\ [][NextOnehot]_vars

-----------------------------------------------------------------------------
(* Properties *)

\* the events of a list that carry a tag of the vocabulary
Recognized(events_l) ==
    {k \in 1..Len(events_l) : events_l[k].tags \cap Range(tags_l) # {}}

\* the tags of the vocabulary that the c-th cluster of the catalog filters on
ClusterTagSet(c) == {tags_l[j] : j \in {h \in 1..Len(tags_l) : clusters_oh[c].oh[1][h] = 1}}

\* the matrix select encodes an event list into
Encoded(events_l) == Onehot(WithTags(events_l), tags_l)

\* the row of the encoded matrix that holds the k-th event of a list
RowOf(events_l, k) == Cardinality({h \in 1..k : events_l[h].tags # {}})

DecideReturned == d_ret.called /\ ~d_ret.fault
SelectReturned == s_ret.called /\ ~s_ret.fault

\* C1: whenever decide returns, every event list of the batch shorter than
\* min_num_events comes back unchanged as the message at its index, with a null
\* cluster id, and the cluster policy was not called for it.
ShortListsPassThrough ==
    DecideReturned =>
        /\ Len(d_ret.messages) = Len(events)
        /\ \A i \in 1..Len(events) :
               Len(events[i]) < min_num_events =>
                   /\ d_ret.messages[i] = EventsMessage(events[i])
                   /\ d_ret.cluster_ids[i] = None
                   /\ d_ret.policy_calls[i] = <<>>

\* decide returned on a batch holding a list of two tagged events under
\* min_num_events = 3 and a catalog with clusters
ShortListSeen ==
    /\ DecideReturned
    /\ min_num_events = 3
    /\ Len(clusters_oh) > 0
    /\ \E i \in 1..Len(events) : Len(events[i]) = 2 /\ Recognized(events[i]) # {}

\* C2: an event list of at least min_num_events events none of which carries a
\* tag of the vocabulary makes select return a null cluster id without a fault,
\* and makes decide emit the list itself with a null cluster id.
NoRecognizedTagGivesNone ==
    \A i \in 1..Len(events) :
        (Recognized(events[i]) = {} /\ Len(events[i]) >= min_num_events) =>
            /\ s_ret.called => (~s_ret.fault /\ s_ret.cluster_ids[i] = None)
            /\ d_ret.called => /\ ~d_ret.fault
                               /\ d_ret.messages[i] = EventsMessage(events[i])
                               /\ d_ret.cluster_ids[i] = None

\* C3: with N > 0 and a catalog with clusters, _best_divide returns the first
\* cluster, in catalog order, among those whose split rate is nearest to 0.5
\* (rates r and 1 - r being equally near).
FirstNearestClusterWins ==
    s_ret.called =>
        LET m     == Encoded(events[1])
            n     == NumEventsWithTags(m)
            rates == SplitRates(m, n)
            Away(c) == IF 2 * rates[c].num >= n THEN 2 * rates[c].num - n
                       ELSE n - 2 * rates[c].num
        IN  (n > 0 /\ Len(clusters_oh) > 0) =>
                LET first == CHOOSE c \in 1..Len(rates) :
                                 /\ \A b \in 1..Len(rates) : Away(c) <= Away(b)
                                 /\ \A b \in 1..(c - 1) : Away(b) > Away(c)
                IN  /\ BestDivide(m).cl_id = clusters_oh[first].cl_id
                    /\ BestDivide(m).rate = rates[first]

\* C4: when select returns and the winning split rate is a number (N > 0), the
\* answer is the empty question with a null cluster id exactly when that rate is
\* strictly below min_rate or strictly above max_rate; otherwise, a rate equal
\* to min_rate or max_rate included, it is the winning cluster's id with the
\* question the catalog holds for it.
RejectedExactlyOutsideTheRates ==
    SelectReturned =>
        LET bst == BestDivide(Encoded(events[1]))
            r   == bst.rate
        IN  r.den > 0 =>
                IF \/ r.num * min_rate.den < min_rate.num * r.den
                   \/ r.num * max_rate.den > max_rate.num * r.den
                THEN s_ret.questions = <<"">> /\ s_ret.cluster_ids = <<None>>
                ELSE /\ s_ret.cluster_ids = <<bst.cl_id>>
                     /\ s_ret.questions = <<questions_d[bst.cl_id]>>

\* select accepted a winning split rate of 1/3 under min_rate = 1/3
BoundaryRateAccepted ==
    /\ SelectReturned
    /\ min_rate = Rate(1, 3)
    /\ BestDivide(Encoded(events[1])).rate = Rate(1, 3)
    /\ s_ret.cluster_ids # <<None>>

\* C5: whenever decide returns, messages and cluster_ids are as long as the batch
\* and the pair at index i is the decision for the event list at index i.
OutputsAlignWithInputs ==
    DecideReturned =>
        /\ Len(d_ret.messages) = Len(events)
        /\ Len(d_ret.cluster_ids) = Len(events)
        /\ \A i \in 1..Len(events) :
               /\ d_ret.messages[i] = DecideOne(events[i]).message
               /\ d_ret.cluster_ids[i] = DecideOne(events[i]).cluster_id

\* decide returned on a batch of two lists, the first passed through (too short),
\* the second answered with a question
TwoDecisionsSeen ==
    /\ DecideReturned
    /\ Len(events) = 2
    /\ Len(events[1]) < min_num_events
    /\ d_ret.cluster_ids[1] = None
    /\ d_ret.cluster_ids[2] # None

\* C6: whenever decide returns, for every event list of at least min_num_events
\* events the cluster policy was called once, with the batch [events]; a null
\* cluster id from it gives the event list itself and a null id, anything else
\* gives its question and its cluster id.  So a null id always comes with the
\* event list and a non-null id with that cluster's question.
LongListsAskThePolicy ==
    DecideReturned =>
        /\ Len(d_ret.messages) = Len(events)
        /\ Len(d_ret.cluster_ids) = Len(events)
        /\ \A i \in 1..Len(events) :
               /\ Len(events[i]) >= min_num_events =>
                      LET r == Select(<<events[i]>>)
                      IN  /\ ~r.fault
                          /\ d_ret.policy_calls[i] = <<<<events[i]>>>>
                          /\ IF r.cluster_ids[1] = None
                             THEN /\ d_ret.messages[i] = EventsMessage(events[i])
                                  /\ d_ret.cluster_ids[i] = None
                             ELSE /\ d_ret.messages[i] = QuestionMessage(r.questions[1])
                                  /\ d_ret.cluster_ids[i] = r.cluster_ids[1]
               /\ d_ret.cluster_ids[i] = None =>
                      d_ret.messages[i] = EventsMessage(events[i])
               /\ d_ret.cluster_ids[i] # None =>
                      d_ret.messages[i] = QuestionMessage(questions_d[d_ret.cluster_ids[i]])

\* decide returned on a batch where the policy refused one list and gave a
\* question for another
PolicyAnswersSeen ==
    /\ DecideReturned
    /\ \E i, j \in 1..Len(events) :
           /\ d_ret.policy_calls[i] # <<>> /\ d_ret.cluster_ids[i] = None
           /\ d_ret.policy_calls[j] # <<>> /\ d_ret.cluster_ids[j] # None

\* C7: the split rate of every cluster is the number of events with a tag that
\* is in the vocabulary and in the cluster's tag set, over N, the number of events
\* with a tag in the vocabulary; N is the one denominator of all clusters, and
\* with N > 0 every rate is within [0,1].  Vocabulary A,B,C, cluster X = {A} and
\* events {A},{A},{B},{C} give N = 4, rate 2/4 and the answer X with its question.
SplitRateIsShareOfTaggedEvents ==
    s_ret.called =>
        LET l     == events[1]
            m     == Encoded(l)
            n     == NumEventsWithTags(m)
            rates == SplitRates(m, n)
        IN  /\ n = Cardinality(Recognized(l))
            /\ Len(rates) = Len(clusters_oh)
            /\ \A c \in 1..Len(rates) :
                   /\ rates[c].den = n
                   /\ rates[c].num =
                          Cardinality({k \in 1..Len(l) : l[k].tags \cap ClusterTagSet(c) # {}})
                   /\ n > 0 => (0 <= rates[c].num /\ rates[c].num <= rates[c].den)
            /\ ( /\ tags_l = <<"A", "B", "C">>
                 /\ clusters_oh = <<[cl_id |-> "X", oh |-> <<<<1, 0, 0>>>>]>>
                 /\ l = <<Event({"A"}), Event({"A"}), Event({"B"}), Event({"C"})>> )
               => /\ n = 4
                  /\ rates = <<Rate(2, 4)>>
                  /\ s_ret.questions = <<"qX">>
                  /\ s_ret.cluster_ids = <<"X">>

\* select was called in the scenario of C7
ScenarioSeen ==
    /\ s_ret.called
    /\ tags_l = <<"A", "B", "C">>
    /\ clusters_oh = <<[cl_id |-> "X", oh |-> <<<<1, 0, 0>>>>]>>
    /\ events = <<<<Event({"A"}), Event({"A"}), Event({"B"}), Event({"C"})>>>>

\* C8: for a vocabulary without duplicates _onehot returns one row per tag set
\* and one column per vocabulary tag, every entry 0 or 1, entry (i, j) being 1
\* exactly when the i-th tag set holds the j-th vocabulary tag.
OnehotMarksMembership ==
    (oh_ret.called /\ NoDuplicates(oh_arg.all_tags)) =>
        /\ Len(oh_ret.m) = Len(oh_arg.tags)
        /\ \A i \in 1..Len(oh_arg.tags) :
               /\ Len(oh_ret.m[i]) = Len(oh_arg.all_tags)
               /\ \A j \in 1..Len(oh_arg.all_tags) :
                      /\ oh_ret.m[i][j] \in {0, 1}
                      /\ oh_ret.m[i][j] = 1 <=> oh_arg.all_tags[j] \in oh_arg.tags[i]

\* _onehot returned for an empty tag set and a tag set with a tag outside the
\* vocabulary, against a vocabulary of two tags
OnehotSeen ==
    /\ oh_ret.called
    /\ oh_arg.all_tags = <<"B", "A">>
    /\ oh_arg.tags = <<{}, {"A", "Z"}>>
    /\ oh_ret.m = <<<<0, 0>>, <<0, 1>>>>

\* C9: select answers a reordered event list as it answers the list; N and the
\* split rates are the same, and the rows of the encoded matrix are those of the
\* original matrix, reordered as the events were.
ReorderingChangesNothing ==
    (s_ret.called /\ p_ret.called) =>
        LET l  == events[1]
            lp == Permuted(l, perm)
            m  == Encoded(l)
            mp == Encoded(lp)
            n  == NumEventsWithTags(m)
            np == NumEventsWithTags(mp)
        IN  /\ p_ret = s_ret
            /\ np = n
            /\ SplitRates(mp, np) = SplitRates(m, n)
            /\ Len(mp) = Len(m)
            /\ \A i \in 1..Len(l) :
                   lp[i].tags # {} =>
                       /\ RowOf(lp, i) <= Len(mp)
                       /\ RowOf(l, perm[i]) <= Len(m)
                       /\ mp[RowOf(lp, i)] = m[RowOf(l, perm[i])]

\* select returned a question for a list of three different events, one of them
\* without tags, and for a reordering of it that moves every event
ReorderingSeen ==
    /\ SelectReturned
    /\ p_ret.called
    /\ Len(events[1]) = 3
    /\ \A i \in 1..3 : perm[i] # i
    /\ \E i \in 1..3 : events[1][i].tags = {}
    /\ \A i, j \in 1..3 : events[1][i] = events[1][j] => i = j
    /\ s_ret.cluster_ids # <<None>>

\* C10: no call changes the catalog, the vocabulary, the rates or
\* min_num_events; a call repeated after any other calls returns what it
\* returned before; and a call on a batch faults exactly when the call on one of
\* its lists alone faults, and otherwise returns for each list what the call on
\* that list alone returns.
CallsLeaveNoTrace ==
    [][ /\ config' = config
        /\ d_ret.called => d_ret' = d_ret
        /\ s_ret.called => s_ret' = s_ret
        /\ d_ret'.called =>
               /\ d_ret'.fault = (\E i \in 1..Len(events) : Decide(<<events[i]>>).fault)
               /\ ~d_ret'.fault =>
                      /\ Len(d_ret'.messages) = Len(events)
                      /\ \A i \in 1..Len(events) :
                             /\ <<d_ret'.messages[i]>> = Decide(<<events[i]>>).messages
                             /\ <<d_ret'.cluster_ids[i]>> = Decide(<<events[i]>>).cluster_ids
        /\ s_ret'.called =>
               /\ s_ret'.fault = (\E i \in 1..Len(events) : Select(<<events[i]>>).fault)
               /\ ~s_ret'.fault =>
                      /\ Len(s_ret'.questions) = Len(events)
                      /\ \A i \in 1..Len(events) :
                             /\ <<s_ret'.questions[i]>> = Select(<<events[i]>>).questions
                             /\ <<s_ret'.cluster_ids[i]>> = Select(<<events[i]>>).cluster_ids
      ]_vars

\* decide and select have both returned on a batch of two lists, one of them
\* answered with a question
BothCalledSeen ==
    /\ DecideReturned
    /\ SelectReturned
    /\ Len(events) = 2
    /\ \E i \in 1..2 : d_ret.cluster_ids[i] # None

====
